---- MODULE Spec2Model ----
(***************************************************************************)
(* Model of rl/util.py: GeneralizedAdvantageEstimator and state_windowing. *)
(* Each behaviour is one call of one of the two routines; Init draws the   *)
(* call's arguments, the actions are the statements of the routine.        *)
(* numpy arrays are objects on a heap (mem) because state_windowing writes *)
(* into the arrays np.roll gives back.  Numbers are integers: on integer   *)
(* inputs of this size the float arithmetic of the code is exact.          *)
(***************************************************************************)
EXTENDS Integers, Sequences, FiniteSets, TLC

\* ---- bounds ----
MaxN == 3          \* longest reward vector
MaxVal == 1        \* rewards and critic values range over 0..MaxVal
MaxCoef == 2       \* gamma and lamb range over 0..MaxCoef
MaxT == 3          \* longest observation sequence
MaxDim == 1        \* largest per-step shape (number of cells of one observation)
MaxObs == 1        \* observation cells range over 0..MaxObs
MaxW == 5          \* largest window_len (the smallest is -1)

Vals == 0 .. MaxVal
Coefs == 0 .. MaxCoef
WindowLens == -1 .. MaxW

VARIABLES pc, err, ret,
          state_batch, reward, gamma, lamb, n, value, delta, result, r, i,
          mem, states, window_len, shifts, shift, y, pads

vars == <<pc, err, ret, state_batch, reward, gamma, lamb, n, value, delta, result, r, i,
          mem, states, window_len, shifts, shift, y, pads>>

gaeVars == <<state_batch, reward, gamma, lamb, n, value, delta, result, r, i>>
winVars == <<mem, states, window_len, shifts, shift, y, pads>>

\* ---------------------------------------------------------------------
\* GeneralizedAdvantageEstimator
\* ---------------------------------------------------------------------

\* mutant: the assertion only rejects a reward vector that is too long
ShapeOkAtMost(rew, nn) == Len(rew) <= nn

\* assert reward.shape == (n,)
ShapeOk(rew, nn) == Len(rew) = nn

\* delta = reward + gamma * value[1:, ] - value[:-1, ]
Delta(rew, g, v) ==
    [j \in 1 .. Len(rew) |-> rew[j] + g * v[j + 1] - v[j]]

\* mutant: the decay is the sum of the two parameters
DecaySum(g, l) == g + l

\* mutant: the decay ignores lamb
DecayGammaOnly(g, l) == g

\* r = gamma * lamb
Decay(g, l) == g * l

\* mutant: the loop walks delta forwards
GaeStepForward(res, rr, d, nn, ii) == res[Len(res)] * rr + d[ii + 1]

\* result[-1] * r + delta[n-1-i]   (delta is 0-based in the code)
GaeStep(res, rr, d, nn, ii) == res[Len(res)] * rr + d[(nn - 1 - ii) + 1]

\* mutant: result[1:], the accumulator without the reversal
ForwardSlice(res) == [j \in 1 .. Len(res) - 1 |-> res[j + 1]]

\* result[:0:-1] : from the last element down to, not including, element 0
ReverseSlice(res) == [j \in 1 .. Len(res) - 1 |-> res[Len(res) - j + 1]]

GaeInit ==
    /\ pc = "gae_115"
    /\ \E k \in 0 .. MaxN + 1 : state_batch = [j \in 1 .. k |-> j]
    /\ \E m \in 0 .. MaxN : reward \in [1 .. m -> Vals]
    /\ gamma \in Coefs
    /\ lamb \in Coefs
    /\ n = 0 /\ value = <<>> /\ delta = <<>> /\ result = <<>> /\ r = 0 /\ i = 0
    /\ mem = <<>> /\ states = 0 /\ window_len = 0 /\ shifts = <<>>
    /\ shift = 0 /\ y = 0 /\ pads = <<>>

\* n = len(state_batch) - 1 ; assert reward.shape == (n,)
GaeAssert ==
    /\ pc = "gae_115"
    /\ n' = Len(state_batch) - 1
    /\ IF ShapeOk(reward, Len(state_batch) - 1)
         THEN pc' = "gae_117" /\ err' = err
         ELSE pc' = "gae_raised" /\ err' = "AssertionError"
    /\ UNCHANGED <<ret, state_batch, reward, gamma, lamb, value, delta, result, r, i>>
    /\ UNCHANGED winVars

\* value = critic.predict_on_batch(state_batch).flatten()
GaePredict ==
    /\ pc = "gae_117"
    /\ \E v \in [1 .. Len(state_batch) -> Vals] : value' = v
    /\ pc' = "gae_118"
    /\ UNCHANGED <<err, ret, state_batch, reward, gamma, lamb, n, delta, result, r, i>>
    /\ UNCHANGED winVars

\* delta = ... ; result = [0] ; r = gamma * lamb
GaeDelta ==
    /\ pc = "gae_118"
    /\ delta' = Delta(reward, gamma, value)
    /\ result' = <<0>>
    /\ r' = Decay(gamma, lamb)
    /\ i' = 0
    /\ pc' = "gae_122"
    /\ UNCHANGED <<err, ret, state_batch, reward, gamma, lamb, n, value>>
    /\ UNCHANGED winVars

\* for i in range(0, n): result.append(result[-1] * r + delta[n-1-i])
GaeLoop ==
    /\ pc = "gae_122"
    /\ i < n
    /\ result' = Append(result, GaeStep(result, r, delta, n, i))
    /\ i' = i + 1
    /\ UNCHANGED <<pc, err, ret, state_batch, reward, gamma, lamb, n, value, delta, r>>
    /\ UNCHANGED winVars

\* return result[:0:-1]
GaeReturn ==
    /\ pc = "gae_122"
    /\ i >= n
    /\ ret' = ReverseSlice(result)
    /\ pc' = "gae_returned"
    /\ UNCHANGED <<err, state_batch, reward, gamma, lamb, n, value, delta, result, r, i>>
    /\ UNCHANGED winVars

\* ---------------------------------------------------------------------
\* state_windowing
\* ---------------------------------------------------------------------

Min(a, b) == IF a < b THEN a ELSE b
Max(a, b) == IF a < b THEN b ELSE a

\* reversed(range(window_len)) : window_len-1, ..., 0 ; empty when window_len <= 0
ReversedRange(w) == [j \in 1 .. Max(w, 0) |-> w - j]

\* mutant: the rotation goes the other way
RollBackward(x, s) ==
    LET T == Len(x)
        offset == IF T = 0 THEN 0 ELSE s % T
    IN  [j \in 1 .. T |-> x[((j - 1 + offset) % T) + 1]]

\* the values np.roll(x, shift, 0) holds: result[(k + shift) mod T] = x[k]
Roll(x, s) ==
    LET T == Len(x)
        offset == IF T = 0 THEN 0 ELSE s % T
    IN  [j \in 1 .. T |-> x[((j - 1 - offset) % T) + 1]]

\* stop of the slice 0:shift on an axis of length T
SliceStop(s, T) == IF s >= 0 THEN Min(s, T) ELSE Max(T + s, 0)

\* mutant: a rotation by a multiple of T hands back the argument itself
NpRollAlias(m, x, s) ==
    IF Len(m[x]) = 0 \/ s % Len(m[x]) = 0
      THEN [mem |-> m, addr |-> x]
      ELSE [mem |-> Append(m, Roll(m[x], s)), addr |-> Len(m) + 1]

\* np.roll allocates its result (empty_like): a new object on the heap
NpRoll(m, x, s) ==
    [mem |-> Append(m, Roll(m[x], s)), addr |-> Len(m) + 1]

\* mutant: only the rows the rotation wrapped (shift mod T) are zeroed
ZeroPrefixMod(a, s) ==
    [j \in 1 .. Len(a) |->
        IF Len(a) > 0 /\ j <= s % Len(a) THEN [c \in DOMAIN a[j] |-> 0] ELSE a[j]]

\* y[0:shift, ] = 0
ZeroPrefix(a, s) ==
    [j \in 1 .. Len(a) |->
        IF j <= SliceStop(s, Len(a)) THEN [c \in DOMAIN a[j] |-> 0] ELSE a[j]]

\* mutant: a single array is rejected too
StackRaisesOnSingle(arrs) == Len(arrs) <= 1

\* np.stack raises ValueError('need at least one array to stack') on an empty list
StackRaises(arrs) == Len(arrs) = 0

\* mutant: the arrays are stacked along axis 0
NpStackAxis0(arrs) == [j \in 1 .. Len(arrs) |-> arrs[j]]

\* np.stack(arrs, axis=1) : out[t][j] = arrs[j][t]
NpStack(arrs) ==
    [t \in 1 .. Len(arrs[1]) |-> [j \in 1 .. Len(arrs) |-> arrs[j][t]]]

WinInit ==
    /\ pc = "win_148"
    /\ \E T \in 0 .. MaxT, D \in 1 .. MaxDim :
          \E a \in [1 .. T -> [1 .. D -> 0 .. MaxObs]] : mem = <<a>>
    /\ states = 1
    /\ window_len \in WindowLens
    /\ shifts = <<>> /\ shift = 0 /\ y = 0 /\ pads = <<>>
    /\ state_batch = <<>> /\ reward = <<>> /\ gamma = 0 /\ lamb = 0
    /\ n = 0 /\ value = <<>> /\ delta = <<>> /\ result = <<>> /\ r = 0 /\ i = 0

\* for i in reversed(range(window_len))
WinBegin ==
    /\ pc = "win_148"
    /\ shifts' = ReversedRange(window_len)
    /\ pc' = "win_iter"
    /\ UNCHANGED <<err, ret, mem, states, window_len, shift, y, pads>>
    /\ UNCHANGED gaeVars

\* naive_pad(states, i) : y = np.roll(x, shift, axis)
WinRoll ==
    /\ pc = "win_iter"
    /\ shifts # <<>>
    /\ shift' = Head(shifts)
    /\ shifts' = Tail(shifts)
    /\ LET rolled == NpRoll(mem, states, Head(shifts))
       IN  mem' = rolled.mem /\ y' = rolled.addr
    /\ pc' = "win_145"
    /\ UNCHANGED <<err, ret, states, window_len, pads>>
    /\ UNCHANGED gaeVars

\* y[0:shift, ] = 0 ; return y
WinZero ==
    /\ pc = "win_145"
    /\ mem' = [mem EXCEPT ![y] = ZeroPrefix(@, shift)]
    /\ pads' = Append(pads, y)
    /\ pc' = "win_iter"
    /\ UNCHANGED <<err, ret, states, window_len, shifts, shift, y>>
    /\ UNCHANGED gaeVars

\* np.stack([...], axis=1)
WinStack ==
    /\ pc = "win_iter"
    /\ shifts = <<>>
    /\ IF StackRaises(pads)
         THEN pc' = "win_raised" /\ err' = "ValueError" /\ ret' = ret
         ELSE /\ pc' = "win_returned" /\ err' = err
              /\ ret' = NpStack([j \in 1 .. Len(pads) |-> mem[pads[j]]])
    /\ UNCHANGED winVars
    /\ UNCHANGED gaeVars

\* ---------------------------------------------------------------------

Init == /\ err = "none" /\ ret = <<>>
        /\ (GaeInit \/ WinInit)

Next == \/ GaeAssert \/ GaePredict \/ GaeDelta \/ GaeLoop \/ GaeReturn
        \/ WinBegin \/ WinRoll \/ WinZero \/ WinStack

Spec == Init /\ [][Next]_vars

\* ---------------------------------------------------------------------
\* Properties
\* ---------------------------------------------------------------------

\* the TD residual of step j (1-based), written from the arguments and the critic's output
DeltaAt(j) == reward[j] + gamma * value[j + 1] - value[j]

ValidTrajectory == Len(state_batch) = Len(reward) + 1

RECURSIVE Pow(_, _)
Pow(b, e) == IF e = 0 THEN 1 ELSE b * Pow(b, e - 1)

\* sum over k = 0 .. last of (gamma*lamb)^k * delta[j+k]
RECURSIVE DirectSum(_, _)
DirectSum(j, last) ==
    IF last < 0 THEN 0
    ELSE Pow(gamma * lamb, last) * DeltaAt(j + last) + DirectSum(j, last - 1)

\* sum of delta[k] for k = from .. to
RECURSIVE TailSum(_, _)
TailSum(from, to) == IF from > to THEN 0 ELSE DeltaAt(from) + TailSum(from + 1, to)

\* C1: on a trajectory with n >= 1 rewards and n+1 states the estimator returns n
\* values in time order with A[n-1] = delta[n-1] and A[i] = delta[i] + gamma*lamb*A[i+1].
C1_BackwardRecurrence ==
    (pc = "gae_returned" /\ Len(reward) >= 1) =>
        /\ Len(ret) = Len(reward)
        /\ ret[Len(reward)] = DeltaAt(Len(reward))
        /\ \A j \in 1 .. Len(reward) - 1 :
              ret[j] = DeltaAt(j) + gamma * lamb * ret[j + 1]

C1_Witness ==
    /\ pc = "gae_returned" /\ Len(reward) >= 2
    /\ gamma * lamb > 1
    /\ ret[2] # 0 /\ ret[1] # ret[2] /\ ret[1] # DeltaAt(1)
    /\ DeltaAt(1) # DeltaAt(2) /\ DeltaAt(1) # 0

\* C2: a call with len(reward) # len(state_batch) - 1 fails at the assertion, before
\* the critic is evaluated, with an AssertionError and without a return value.
C2_MismatchRaises ==
    (pc \in {"gae_117", "gae_118", "gae_122", "gae_returned", "gae_raised"}
        /\ ~ValidTrajectory) =>
        /\ pc = "gae_raised"
        /\ err = "AssertionError"
        /\ ret = <<>> /\ value = <<>> /\ result = <<>>

C2_Witness ==
    /\ pc = "gae_raised" /\ err = "AssertionError"
    /\ Len(reward) < Len(state_batch) - 1 /\ Len(reward) >= 1

\* the caller's observation array
Obs == mem[states]

ZeroRow(row) == [c \in DOMAIN row |-> 0]

\* C3: for window_len W >= 1 (also W > T) the result has T entries of W slices;
\* slice j of entry t is observations[t-(W-1-j)] when that index is >= 0, else zeros.
C3_WindowContents ==
    (pc = "win_returned" /\ window_len >= 1) =>
        /\ Len(ret) = Len(Obs)
        /\ \A t \in 0 .. Len(Obs) - 1 :
              /\ Len(ret[t + 1]) = window_len
              /\ \A j \in 0 .. window_len - 1 :
                    LET src == t - (window_len - 1 - j)
                    IN  ret[t + 1][j + 1] =
                            IF src >= 0 THEN Obs[src + 1] ELSE ZeroRow(Obs[t + 1])

C3_Witness ==
    /\ pc = "win_returned"
    /\ Len(Obs) >= 2 /\ window_len > Len(Obs)
    /\ Obs[Len(Obs)] # ZeroRow(Obs[Len(Obs)])
    /\ Obs[1] # Obs[2]
    /\ ret[1][window_len] = Obs[1] /\ ret[1][1] = ZeroRow(Obs[1])

\* C4 (as stated): with window_len - 1 >= T the result holds a non-zero value in a
\* slice whose source index is negative.  Which cells are copied and which are
\* zeroed does not depend on the data, so this is stated on all-non-zero input.
C4_WrapLeaks ==
    (/\ pc = "win_returned"
     /\ Len(Obs) >= 1 /\ window_len - 1 >= Len(Obs)
     /\ \A t \in 1 .. Len(Obs) : \A c \in DOMAIN Obs[t] : Obs[t][c] # 0) =>
        \E t \in 0 .. Len(Obs) - 1 : \E j \in 0 .. window_len - 1 :
            /\ t - (window_len - 1 - j) < 0
            /\ ret[t + 1][j + 1] # ZeroRow(Obs[t + 1])

\* C4 (amended): every lagged copy naive_pad has returned is zero in each row whose
\* source index t - shift is negative; a copy with shift >= T is zero throughout.
C4_NoWrapLeak ==
    (pc \in {"win_iter", "win_145", "win_returned"}) =>
        \A k \in 1 .. Len(pads) :
            LET copy == mem[pads[k]]
                s == window_len - k
            IN  \A t \in 0 .. Len(copy) - 1 :
                    (t - s < 0) => copy[t + 1] = ZeroRow(copy[t + 1])

C4_Witness ==
    /\ pc = "win_iter" /\ Len(pads) >= 1
    /\ Len(Obs) >= 2 /\ shift > Len(Obs)
    /\ pads[Len(pads)] = y
    /\ \A t \in 1 .. Len(Obs) : Obs[t] # ZeroRow(Obs[t])
    /\ \A t \in 1 .. Len(mem[y]) : mem[y][t] = ZeroRow(mem[y][t])

WinFinished == pc \in {"win_returned", "win_raised"}

\* C5 (as stated): a finished call with window_len zero, negative or larger than T
\* has returned an output and raised nothing.
C5_NeverFails ==
    (WinFinished /\ (window_len <= 0 \/ window_len > Len(Obs))) =>
        (pc = "win_returned" /\ err = "none")

\* C5 (amended): a finished call with window_len > T has returned an output and
\* raised nothing; one with window_len <= 0 has failed with np.stack's ValueError.
C5_FailsOnlyOnEmptyWindow ==
    /\ (WinFinished /\ window_len >= 1 /\ window_len > Len(Obs)) =>
          (pc = "win_returned" /\ err = "none" /\ Len(ret) = Len(Obs))
    /\ (WinFinished /\ window_len <= 0) =>
          (pc = "win_raised" /\ err = "ValueError" /\ ret = <<>>)

C5_Witness ==
    /\ pc = "win_raised" /\ err = "ValueError"
    /\ window_len < 0 /\ Len(Obs) >= 1

\* C6: every returned A[i] equals the direct sum over k = 0..n-1-i of
\* (gamma*lamb)^k * delta[i+k].
C6_DirectSum ==
    (pc = "gae_returned") =>
        /\ Len(ret) = Len(reward)
        /\ \A j \in 1 .. Len(reward) : ret[j] = DirectSum(j, Len(reward) - j)

C6_Witness ==
    /\ pc = "gae_returned" /\ Len(reward) >= 2
    /\ gamma * lamb > 1 /\ gamma # lamb
    /\ DeltaAt(1) # 0 /\ DeltaAt(2) # 0 /\ DeltaAt(1) # DeltaAt(2)
    /\ ret[1] = DeltaAt(1) + gamma * lamb * DeltaAt(2)

\* C7: with lamb = 0 the result is the TD-residual sequence itself.
C7_LambZero ==
    (pc = "gae_returned" /\ Len(reward) >= 1 /\ lamb = 0) =>
        /\ Len(ret) = Len(reward)
        /\ \A j \in 1 .. Len(reward) : ret[j] = DeltaAt(j)

C7_Witness ==
    /\ pc = "gae_returned" /\ lamb = 0 /\ gamma > 0
    /\ Len(reward) >= 2
    /\ ret[2] # 0 /\ ret[1] # ret[2]

\* C8: with gamma = 1 and lamb = 1, A[i] is the sum of delta[k] for k = i..n-1.
C8_UndiscountedSum ==
    (pc = "gae_returned" /\ gamma = 1 /\ lamb = 1) =>
        /\ Len(ret) = Len(reward)
        /\ \A j \in 1 .. Len(reward) : ret[j] = TailSum(j, Len(reward))

C8_Witness ==
    /\ pc = "gae_returned" /\ gamma = 1 /\ lamb = 1
    /\ Len(reward) >= 2
    /\ DeltaAt(1) # 0 /\ DeltaAt(2) # 0 /\ DeltaAt(1) # DeltaAt(2)
    /\ ret[1] = DeltaAt(1) + DeltaAt(2) /\ ret[1] # ret[2]

\* C9: with window_len = 1 there is one single-slice stack per observation and the
\* last slice of each stack, taken in order, is the observation sequence.
C9_WindowOneRoundTrip ==
    (pc = "win_returned" /\ window_len = 1) =>
        /\ Len(ret) = Len(Obs)
        /\ \A t \in 1 .. Len(ret) : Len(ret[t]) = 1
        /\ [t \in 1 .. Len(ret) |-> ret[t][Len(ret[t])]] = Obs

C9_Witness ==
    /\ pc = "win_returned" /\ window_len = 1
    /\ Len(Obs) >= 3
    /\ Obs[1] # Obs[2] /\ Obs[2] # Obs[3]

WinPcs == {"win_148", "win_iter", "win_145", "win_returned", "win_raised"}

\* C10: no step of state_windowing changes the caller's observation array.
C10_InputUnchanged ==
    [][(pc \in WinPcs) => ((states' = states) /\ ((mem')[states] = mem[states]))]_vars

\* a lagged copy has had its first rows zeroed while the caller's rows are intact
C10_Witness ==
    /\ pc = "win_iter" /\ Len(pads) >= 1 /\ pads[Len(pads)] = y
    /\ shift >= 1 /\ Len(Obs) >= 2
    /\ \A t \in 1 .. Len(Obs) : Obs[t] # ZeroRow(Obs[t])
    /\ mem[y][1] = ZeroRow(mem[y][1])
    /\ y # states

====
